---- MODULE Spec2Model ----
(***************************************************************************)
(* A model of cmpnc (src/cmpnc/cmpnc.py): the comparison of two netCDF      *)
(* files.  The orchestrator (start_compare, compare_dimensions,             *)
(* compare_attributes, compare_variables, compare_umlim_var) is one          *)
(* sequential process whose position is pc; every multiprocessing.Process   *)
(* it starts is an entry of procs that finishes (puts its result on the     *)
(* queue it was given) or dies of an uncaught exception at any later time.  *)
(*                                                                         *)
(* The two files are abstracted to what the code reads of them: dimension   *)
(* names, lengths and unlimited flags, attribute names and values, variable *)
(* names, dtypes and dimensions, and, for every variable and every index    *)
(* along the growth axis, the outcome of np.allclose on the two slices:     *)
(* "ok" (True), "bad" (False, so the assert raises AssertionError) or "err" *)
(* (np.allclose or the indexing raises another exception).                  *)
(***************************************************************************)
EXTENDS Integers, Sequences, FiniteSets, TLC

\* ------------------------------------------------------------------ bounds
MaxFixed == 3
MaxGrowth == 5
MaxULen == 3
MaxProcs == 6

VARIABLES
    conterr,            \* -k
    summary,            \* -s
    ignore_attributes,  \* --ignore-attributes
    nprocsg,            \* -n
    ncf1, ncf2,         \* the two files
    cmp,                \* outcome of np.allclose per variable and index
    pc,                 \* position of the orchestrator
    exc,                \* the exception that ended the run, or NoExc
    exitcode,           \* sys.exit status once pc = "done"
    unlimdim, ulen,     \* start_compare
    vars_, vars_u,      \* compare_variables: the two groups
    failed_vars, skipped_vars, all_okay,
    nprocs, ipp,
    done_queue,         \* the Queue the orchestrator currently reads
    senders,            \* history: the worker that put each item of done_queue
    taken,              \* history: <<worker, queue>> for every result a get() returned
    qid,                \* identity of that Queue (one per wave)
    procs,              \* every Process started so far
    vi,                 \* index into vars_u of the growth-axis loop
    got,                \* iterations done of the current collection loop
    success,            \* compare_umlim_var / the loop body's success
    counts,             \* nvars/nfailed/nskipped/npassed, or Undefined
    gets,               \* history: number of done_queue.get() calls per queue
    inline,             \* history: variables compared by an inline work() call
    handles,            \* number of Dataset handles the orchestrator holds open
    run,                \* 1 for the first run on the two files, 2 for a re-run
    prev                \* the outcome of the first run, once it is re-run

vars == <<conterr, summary, ignore_attributes, nprocsg, ncf1, ncf2, cmp, pc, exc,
          exitcode, unlimdim, ulen, vars_, vars_u, failed_vars, skipped_vars,
          all_okay, nprocs, ipp, done_queue, senders, taken, qid, procs, vi, got,
          success, counts, gets, inline, handles, run, prev>>

inputs == <<conterr, summary, ignore_attributes, nprocsg, ncf1, ncf2, cmp>>
rerun == <<run, prev>>

\* ------------------------------------------------------------------ values
PyNone == "<None>"          \* Python's None
NoExc == [type |-> "", at |-> ""]
Undefined == [defined |-> FALSE]
NoOutcome == [exitcode |-> -1, failed |-> {}, skipped |-> {}]
S1 == "S1"
F8 == "f8"

Range(s) == {s[i] : i \in 1..Len(s)}
Min(a, b) == IF a < b THEN a ELSE b

\* Python's s[sti:edi] for 0 <= sti, as a sequence
Slice(s, sti, edi) == SubSeq(s, sti + 1, Min(edi, Len(s)))

Names(file) == {file.variables[i].name : i \in 1..Len(file.variables)}
VarOf(name) == CHOOSE v \in Range(ncf1.variables) : v.name = name
AttNames(file) == [i \in 1..Len(file.attrs) |-> file.attrs[i].name]
AttValue(file, a) == (CHOOSE r \in Range(file.attrs) : r.name = a).value


\* ------------------------------------------------------------------ pure code
\* customAssert(a, b, msg, conterr): "pass" (returns 0), "raise"
\* (AssertionError) or "print" (returns 1); differ stands for a != b
customAssert_NeverRaises(differ, ce) ==
    IF ~differ THEN "pass" ELSE "print"

customAssert(differ, ce) ==
    IF ~differ THEN "pass" ELSE IF ~ce THEN "raise" ELSE "print"

\* get_unlim_dimension: the dimension whose isunlimited() holds, else None
get_unlim_dimension(dimensions) ==
    IF \E d \in DOMAIN dimensions : dimensions[d].unlimited
    THEN CHOOSE d \in DOMAIN dimensions : dimensions[d].unlimited
    ELSE PyNone

\* start_compare, lines 414-425: the growth dimension and its length
ResolveUnlimdim(dimensions) ==
    LET u == get_unlim_dimension(dimensions) IN
    IF u # PyNone THEN [unlimdim |-> u, ulen |-> dimensions[u].len]
    ELSE IF "time" \in DOMAIN dimensions
         THEN [unlimdim |-> "time", ulen |-> dimensions["time"].len]
         ELSE [unlimdim |-> "None", ulen |-> 0]

\* compare_dimensions: the type of the exception it raises, "" if none
compare_dimensions(dims1, dims2, ce) ==
    IF customAssert(Cardinality(DOMAIN dims1) # Cardinality(DOMAIN dims2), ce) = "raise"
    THEN "AssertionError"
    ELSE IF customAssert(DOMAIN dims1 # DOMAIN dims2, ce) = "raise"
    THEN "AssertionError"
    ELSE IF \E k \in DOMAIN dims1 : k \notin DOMAIN dims2
    THEN "KeyError"                       \* dims2[k], line 362
    ELSE IF \E k \in DOMAIN dims1 :
              customAssert(dims1[k].len # dims2[k].len, ce) = "raise"
    THEN "AssertionError"
    ELSE ""

\* compare_attributes: the type of the exception it raises, "" if none.  The
\* first two customAssert calls pass no conterr, so they raise on any
\* difference and the except clause decides.
compare_attributes(f1, f2, ce) ==
    LET att1 == AttNames(f1)
        att2 == AttNames(f2)
        caught == \/ customAssert(Len(att1) # Len(att2), FALSE) = "raise"
                  \/ customAssert(att1 # att2, FALSE) = "raise"
        continue_comparing == ~caught
    IN  IF caught /\ ~ce THEN "AssertionError"
        ELSE IF continue_comparing
                /\ \E i \in 1..Len(att1) :
                      customAssert(AttValue(f1, att1[i]) # AttValue(f2, att1[i]), ce)
                          = "raise"
        THEN "AssertionError"
        ELSE ""

\* compare_variables, lines 214-218: the classification, in file order
IsUnlimVar(v) == unlimdim \in v.dimensions
IsFixedVar(v) == unlimdim \notin v.dimensions
NameOf(v) == v.name
SeqMap(Op(_), s) == [i \in 1..Len(s) |-> Op(s[i])]
Classify_u(file) == SeqMap(NameOf, SelectSeq(file.variables, IsUnlimVar))
Classify_(file) == SeqMap(NameOf, SelectSeq(file.variables, IsFixedVar))

\* compare_variables, lines 220-223: "" or "AssertionError"
CheckVariableSet(f1, f2, ce) ==
    IF customAssert(Len(f1.variables) # Len(f2.variables), ce) = "raise"
    THEN "AssertionError"
    ELSE IF customAssert(Names(f1) # Names(f2), ce) = "raise"
    THEN "AssertionError"
    ELSE ""

\* ------------------------------------------------------------------ partitioners
\* lines 237-240: the clamp of the fixed-shape wave
FixedNprocs(P, numvars) == IF P > numvars THEN numvars ELSE P

\* lines 248-253: vars_[sti:edi] of worker i (0-based)
FixedSlice_NoRemainder(numvars, np, ippv, i) ==
    [sti |-> ippv * i, edi |-> ippv * (i + 1)]

FixedSlice(numvars, np, ippv, i) ==
    [sti |-> ippv * i,
     edi |-> IF i < np - 1 THEN ippv * (i + 1) ELSE numvars]

\* compare_umlim_var, lines 116-121: the closed index range of worker i
UmlimRange(ulenv, np, ippv, i) ==
    [sti |-> ippv * i,
     edi |-> IF i # np - 1 THEN ippv * (i + 1) - 1 ELSE ulenv - 1]

\* lines 279-281: the while loop that halves nprocs
RECURSIVE Halve(_, _)
Halve(numvars, np) ==
    IF np > 0 /\ numvars < np THEN Halve(numvars, np \div 2) ELSE np

\* lines 276-281: nprocs of the variable-name wave of the growth-axis group
NamesNprocs_Clamp(P, numvars) == IF P > numvars THEN numvars ELSE P

NamesNprocs(P, numvars) ==
    IF ~((numvars \div P) > 1) THEN Halve(numvars, P) ELSE P

\* lines 287-288: vars_u[sti:edi] of worker i (0-based)
NamesSlice(numvars, np, ippv, i) ==
    [sti |-> ippv * i,
     edi |-> IF i < np - 1 THEN ippv * (i + 1)
             ELSE ippv * (i + 1) + (numvars % np)]

\* ------------------------------------------------------------------ workers
\* np.allclose(var1[Ellipsis], var2[Ellipsis]) over the whole array
Whole(v) ==
    IF \E i \in 1..Len(cmp[v]) : cmp[v][i] = "err" THEN "err"
    ELSE IF \E i \in 1..Len(cmp[v]) : cmp[v][i] = "bad" THEN "bad"
    ELSE "ok"

IsText(v) == VarOf(v).dtype = S1
ParcompFails(v) == ~IsText(v) /\ Whole(v) = "bad"

\* parcomp: an exception other than AssertionError leaves the function
ParcompRaises(vs) ==
    \E i \in 1..Len(vs) :
        \/ vs[i] \notin Names(ncf2)                   \* ncf2.variables[var]
        \/ ~IsText(vs[i]) /\ Whole(vs[i]) = "err"

\* parcomp: (success, failed_vars, skipped_vars)
parcomp(vs) ==
    LET failed == SelectSeq(vs, ParcompFails)
        skipped == SelectSeq(vs, IsText)
    IN  [success |-> failed = <<>>, failed |-> failed, skipped |-> skipped]

\* work: an exception other than AssertionError leaves the function
WorkRaises(var, sti, edi) ==
    \/ var \notin Names(ncf2)
    \/ \E i \in sti..edi : cmp[var][i + 1] = "err"

\* work: success
work_FirstIndexOnly(var, sti, edi) ==
    sti > edi \/ cmp[var][sti + 1] # "bad"

work(var, sti, edi) ==
    \A i \in sti..edi : cmp[var][i + 1] # "bad"

\* Dataset(fname1, "r") and Dataset(fname2, "r"); ncf1.close() and ncf2.close()
OpenDatasets(n) == n + 2
CloseDatasets_Skipped(n) == n
CloseDatasets(n) == n - 2

\* handles a worker still holds when its function ends: both closed before
\* the put or the return, none closed when an exception leaves the function
WorkerHandles(raised) ==
    IF raised THEN OpenDatasets(0) ELSE CloseDatasets(OpenDatasets(0))

ParcompProc(vs, q) ==
    [target |-> "parcomp", vars_ |-> vs, var |-> PyNone, sti |-> 0, edi |-> -1,
     q |-> q, st |-> "live", h |-> 0]
WorkProc(var, sti, edi, q) ==
    [target |-> "work", vars_ |-> <<>>, var |-> var, sti |-> sti, edi |-> edi,
     q |-> q, st |-> "live", h |-> 0]


\* ------------------------------------------------------------------ inputs
FName(i) == <<"f", i>>
GName(j) == <<"g", j>>

\* how the first file declares its dimensions: a record dimension; a fixed
\* dimension called time; neither; a record dimension next to a fixed time;
\* neither, with a fixed dimension whose name is the word None
DimConfigs == {"unlimited", "time", "none", "unlimited_and_time", "named_None"}
GrowthDim(cfg) ==
    IF cfg \in {"unlimited", "unlimited_and_time"} THEN "rec"
    ELSE IF cfg = "time" THEN "time" ELSE "None"

Dims(cfg, ul) ==
    [d \in {"x"} \cup (IF cfg = "none" THEN {} ELSE {GrowthDim(cfg)})
               \cup (IF cfg = "unlimited_and_time" THEN {"time"} ELSE {}) |->
        IF d = "x" THEN [len |-> 2, unlimited |-> FALSE]
        ELSE IF d = GrowthDim(cfg)
             THEN [len |-> ul, unlimited |-> (cfg \in {"unlimited", "unlimited_and_time"})]
             ELSE [len |-> 2, unlimited |-> FALSE]]

FixedVars(nF, s1) ==
    [i \in 1..nF |-> [name |-> FName(i),
                      dtype |-> IF FName(i) \in s1 THEN S1 ELSE F8,
                      dimensions |-> {"x"}, mask |-> "m0"]]
GrowthVars(nG, cfg, s1) ==
    [j \in 1..nG |-> [name |-> GName(j),
                      dtype |-> IF GName(j) \in s1 THEN S1 ELSE F8,
                      dimensions |-> {GrowthDim(cfg), "x"}, mask |-> "m0"]]

File1(sc) ==
    [dimensions |-> Dims(sc.cfg, sc.ul),
     attrs |-> <<[name |-> "title", value |-> "run"], [name |-> "units", value |-> "K"]>>,
     variables |-> FixedVars(sc.nF, sc.s1) \o GrowthVars(sc.nG, sc.cfg, sc.s1)]

StructKinds == {"same", "dim_missing", "dim_extra", "dim_len", "dim_renamed",
                "att_value", "att_missing", "att_order",
                "var_missing", "var_extra", "var_renamed", "mask_differs"}

Extra == [name |-> <<"h", 1>>, dtype |-> F8, dimensions |-> {"x"}, mask |-> "m0"]
ExtraDim == [len |-> 2, unlimited |-> FALSE]

File2(f1, struct) ==
    LET d == f1.dimensions
        v == f1.variables
        n == Len(v)
    IN CASE struct = "dim_missing" ->
              [f1 EXCEPT !.dimensions = [k \in DOMAIN d \ {"x"} |-> d[k]]]
         [] struct = "dim_extra" ->
              [f1 EXCEPT !.dimensions =
                  [k \in DOMAIN d \cup {"y"} |-> IF k = "y" THEN ExtraDim ELSE d[k]]]
         [] struct = "dim_len" ->
              [f1 EXCEPT !.dimensions = [d EXCEPT !["x"].len = 3]]
         [] struct = "dim_renamed" ->
              [f1 EXCEPT !.dimensions =
                  [k \in (DOMAIN d \ {"x"}) \cup {"y"} |->
                      IF k = "y" THEN ExtraDim ELSE d[k]]]
         [] struct = "att_value" ->
              [f1 EXCEPT !.attrs = [f1.attrs EXCEPT ![2].value = "C"]]
         [] struct = "att_missing" ->
              [f1 EXCEPT !.attrs = SubSeq(f1.attrs, 1, 1)]
         [] struct = "att_order" ->
              [f1 EXCEPT !.attrs = <<f1.attrs[2], f1.attrs[1]>>]
         [] struct = "var_missing" ->
              [f1 EXCEPT !.variables = SubSeq(v, 1, n - 1)]
         [] struct = "var_extra" ->
              [f1 EXCEPT !.variables = Append(v, Extra)]
         [] struct = "var_renamed" ->
              [f1 EXCEPT !.variables = Append(SubSeq(v, 1, n - 1), Extra)]
         [] struct = "mask_differs" ->
              [f1 EXCEPT !.variables = [v EXCEPT ![n].mask = "m1"]]
         [] OTHER -> f1

\* cmp[v][k] is what np.allclose(var1[k], var2[k]) does on the arrays as read:
\* "ok" it returns True, "bad" it returns False, "err" it raises.  The last
\* variable of a "mask_differs" pair has the same data in both files and a
\* different validity mask: every element np.allclose looks at agrees, "ok".
Cells(nF, nG, ul) ==
    {<<FName(i), 1>> : i \in 1..nF} \cup {<<GName(j), k>> : j \in 1..nG, k \in 1..ul}

Outcomes(sc) ==
    [v \in {FName(i) : i \in 1..sc.nF} \cup {GName(j) : j \in 1..sc.nG} |->
        [k \in 1..(IF v[1] = "f" THEN 1 ELSE sc.ul) |->
            IF <<v, k>> \in sc.err THEN "err"
            ELSE IF <<v, k>> \in sc.bad THEN "bad" ELSE "ok"]]

Scenario(cfg, nF, nG, ul, P, ce, su, ia, struct, s1, bad, err) ==
    [cfg |-> cfg, nF |-> nF, nG |-> nG, ul |-> ul, P |-> P, conterr |-> ce,
     summary |-> su, ignore |-> ia, struct |-> struct, s1 |-> s1, bad |-> bad,
     err |-> err]

\* every shape, two identical files
ShapeScenarios ==
    {Scenario("unlimited", nF, nG, ul, P, FALSE, FALSE, FALSE, "same", {}, {}, {}) :
        nF \in 0..MaxFixed, nG \in 0..MaxGrowth, ul \in 0..MaxULen, P \in 1..MaxProcs}

AllVars(nF, nG) == {FName(i) : i \in 1..nF} \cup {GName(j) : j \in 1..nG}
UpTo(S, n) == {T \in SUBSET S : Cardinality(T) <= n}

\* at most two defects: a text variable, slices that differ, a slice whose
\* comparison raises
Defects(nF, nG, ul) ==
    LET V == AllVars(nF, nG)
        C == Cells(nF, nG, ul)
    IN  {[s1 |-> {v}, bad |-> B, err |-> {}] : v \in V, B \in UpTo(C, 1)}
        \cup {[s1 |-> {}, bad |-> B, err |-> {}] : B \in UpTo(C, 2) \ {{}}}
        \cup {[s1 |-> {}, bad |-> B \ {e}, err |-> {e}] : B \in UpTo(C, 1), e \in C}

\* the shapes that reach every branch (one or several workers per wave, the
\* serial, index-range and variable-name branches), with defects
DefectScenarios ==
    UNION {
      {Scenario("unlimited", nF, nG, ul, P, FALSE, FALSE, FALSE, "same", d.s1, d.bad, d.err) :
          d \in Defects(nF, nG, ul)} :
      nF \in 1..2, nG \in {1, MaxGrowth}, ul \in 0..2, P \in {1, 2, MaxProcs}}

\* small shapes, every flag, every growth-axis resolution, every structural
\* difference between the two files
StructScenarios ==
    {Scenario(cfg, nF, IF cfg = "none" THEN 0 ELSE 1, 1, P, ce, su, ia, struct, {}, {}, {}) :
        cfg \in DimConfigs, nF \in 1..2, P \in 1..2, ce \in BOOLEAN, su \in BOOLEAN,
        ia \in BOOLEAN, struct \in StructKinds}

Scenarios ==
    ShapeScenarios \cup DefectScenarios \cup StructScenarios

Init ==
    \E sc \in Scenarios :
        /\ conterr = sc.conterr
        /\ summary = sc.summary
        /\ ignore_attributes = sc.ignore
        /\ nprocsg = sc.P
        /\ ncf1 = File1(sc)
        /\ ncf2 = File2(File1(sc), sc.struct)
        /\ cmp = Outcomes(sc)
        /\ pc = "start"
        /\ exc = NoExc
        /\ exitcode = -1
        /\ unlimdim = PyNone
        /\ ulen = 0
        /\ vars_ = <<>>
        /\ vars_u = <<>>
        /\ failed_vars = <<>>
        /\ skipped_vars = <<>>
        /\ all_okay = TRUE
        /\ nprocs = 0
        /\ ipp = 0
        /\ done_queue = <<>>
        /\ senders = <<>>
        /\ taken = {}
        /\ qid = 0
        /\ procs = <<>>
        /\ vi = 1
        /\ got = 0
        /\ success = TRUE
        /\ counts = Undefined
        /\ gets = <<>>
        /\ inline = {}
        /\ handles = 0
        /\ run = 1
        /\ prev = NoOutcome


\* ------------------------------------------------------------------ orchestrator
Abort(type, at) ==
    /\ pc' = "aborted"
    /\ exc' = [type |-> type, at |-> at]
    /\ exitcode' = 1

Goto(l) ==
    /\ pc' = l
    /\ UNCHANGED <<exc, exitcode>>

\* start_compare, lines 406-425
StartCompare ==
    /\ pc = "start"
    /\ unlimdim' = ResolveUnlimdim(ncf1.dimensions).unlimdim
    /\ ulen' = ResolveUnlimdim(ncf1.dimensions).ulen
    /\ handles' = OpenDatasets(handles)
    /\ Goto("dimensions")
    /\ UNCHANGED <<inputs, rerun, vars_, vars_u, failed_vars, skipped_vars, all_okay, nprocs,
                   ipp, done_queue, senders, qid, procs, vi, got, success, counts, gets, taken, inline>>

\* start_compare, line 427
CompareDimensions ==
    /\ pc = "dimensions"
    /\ LET e == compare_dimensions(ncf1.dimensions, ncf2.dimensions, conterr) IN
       IF e # "" THEN Abort(e, "compare_dimensions") ELSE Goto("attributes")
    /\ UNCHANGED <<inputs, rerun, handles, unlimdim, ulen, vars_, vars_u, failed_vars, skipped_vars,
                   all_okay, nprocs, ipp, done_queue, senders, qid, procs, vi, got, success,
                   counts, gets, taken, inline>>

\* start_compare, lines 428-429
CompareAttributes ==
    /\ pc = "attributes"
    /\ LET e == IF ignore_attributes THEN ""
                ELSE compare_attributes(ncf1, ncf2, conterr) IN
       IF e # "" THEN Abort(e, "compare_attributes") /\ UNCHANGED handles
       ELSE Goto("variables") /\ handles' = CloseDatasets(handles)
    /\ UNCHANGED <<inputs, rerun, unlimdim, ulen, vars_, vars_u, failed_vars, skipped_vars,
                   all_okay, nprocs, ipp, done_queue, senders, qid, procs, vi, got, success,
                   counts, gets, taken, inline>>

\* compare_variables, lines 196-230
ClassifyVariables ==
    /\ pc = "variables"
    /\ vars_u' = Classify_u(ncf1)
    /\ vars_' = Classify_(ncf1)
    /\ LET e == CheckVariableSet(ncf1, ncf2, conterr) IN
       IF e # "" THEN Abort(e, "compare_variables") /\ handles' = OpenDatasets(handles)
       ELSE Goto("fixed") /\ handles' = CloseDatasets(OpenDatasets(handles))
    /\ UNCHANGED <<inputs, rerun, unlimdim, ulen, failed_vars, skipped_vars, all_okay, nprocs,
                   ipp, done_queue, senders, qid, procs, vi, got, success, counts, gets, taken, inline>>

\* compare_variables, lines 235-254: the fixed-shape wave is dispatched
DispatchFixed ==
    /\ pc = "fixed"
    /\ LET numvars == Len(vars_)
           np == FixedNprocs(nprocsg, numvars)
       IN  /\ nprocs' = np
           /\ IF np = 0
              THEN /\ Abort("ZeroDivisionError", "compare_variables")   \* line 242
                   /\ UNCHANGED <<ipp, done_queue, senders, qid, procs, gets, taken>>
              ELSE LET ippv == numvars \div np
                       new == [i \in 1..np |->
                                 LET r == FixedSlice(numvars, np, ippv, i - 1) IN
                                 ParcompProc(Slice(vars_, r.sti, r.edi), qid + 1)]
                   IN  /\ ipp' = ippv
                       /\ done_queue' = <<>>
                       /\ senders' = <<>>
                       /\ qid' = qid + 1
                       /\ gets' = Append(gets, 0)
                       /\ UNCHANGED taken
                       /\ procs' = procs \o new
                       /\ Goto("fixed_collect")
    /\ got' = 0
    /\ UNCHANGED <<inputs, rerun, handles, unlimdim, ulen, vars_, vars_u, failed_vars, skipped_vars,
                   all_okay, vi, success, counts, inline>>

\* lines 257-262 (and 294-299): one partial result is merged
Aggregate_LastWins(ok, failed, skipped, s) ==
    [all_okay |-> s.success,
     failed_vars |-> failed \o s.failed,
     skipped_vars |-> skipped \o s.skipped]

Aggregate(ok, failed, skipped, s) ==
    [all_okay |-> ok /\ s.success,
     failed_vars |-> failed \o s.failed,
     skipped_vars |-> skipped \o s.skipped]

\* lines 322-325
CountsOf(failed, skipped) ==
    [defined |-> TRUE,
     nvars |-> Len(vars_) + Len(vars_u),
     nfailed |-> Len(failed),
     nskipped |-> Len(skipped),
     npassed |-> Len(vars_) + Len(vars_u) - Len(failed) - Len(skipped)]

\* one iteration of the loop at lines 256-262: done_queue.get() blocks while
\* the queue is empty
CollectFixed ==
    /\ pc = "fixed_collect"
    /\ done_queue # <<>>
    /\ LET a == Aggregate(all_okay, failed_vars, skipped_vars, Head(done_queue)) IN
        /\ all_okay' = a.all_okay
        /\ failed_vars' = a.failed_vars
        /\ skipped_vars' = a.skipped_vars
    /\ done_queue' = Tail(done_queue)
    /\ senders' = Tail(senders)
    /\ gets' = [gets EXCEPT ![qid] = @ + 1]
    /\ taken' = taken \cup {<<Head(senders), qid>>}
    /\ got' = got + 1
    /\ IF got + 1 = nprocs THEN Goto("growth") ELSE Goto("fixed_collect")
    /\ UNCHANGED <<inputs, rerun, handles, unlimdim, ulen, vars_, vars_u, nprocs, ipp, qid, procs, vi,
                   success, counts, inline>>

\* line 271
NamesCond == (ulen < nprocs) /\ (Len(vars_u) > 4)

\* line 266 is false: no growth axis, lines 322-325 are not executed.  The
\* test is `unlimdim is not "None"`; start_compare's "None" (line 424) is the
\* same interned constant of the module, so identity is equality here.
SkipGrowth ==
    /\ pc = "growth"
    /\ unlimdim = "None"
    /\ Goto("summary")
    /\ UNCHANGED <<inputs, rerun, handles, unlimdim, ulen, vars_, vars_u, failed_vars, skipped_vars,
                   all_okay, nprocs, ipp, done_queue, senders, qid, procs, vi, got, success,
                   counts, gets, taken, inline>>

\* lines 276-291: the growth-axis group is dispatched by variable name
DispatchNames ==
    /\ pc = "growth"
    /\ unlimdim # "None"
    /\ NamesCond
    /\ LET numvars == Len(vars_u)
           np == NamesNprocs(nprocsg, numvars)
       IN  /\ nprocs' = np
           /\ IF np = 0
              THEN /\ Abort("ZeroDivisionError", "compare_variables")   \* line 281
                   /\ UNCHANGED <<ipp, done_queue, senders, qid, procs, gets, taken>>
              ELSE LET ippv == numvars \div np
                       new == [i \in 1..np |->
                                 LET r == NamesSlice(numvars, np, ippv, i - 1) IN
                                 ParcompProc(Slice(vars_u, r.sti, r.edi), qid + 1)]
                   IN  /\ ipp' = ippv
                       /\ done_queue' = <<>>
                       /\ senders' = <<>>
                       /\ qid' = qid + 1
                       /\ gets' = Append(gets, 0)
                       /\ UNCHANGED taken
                       /\ procs' = procs \o new
                       /\ Goto("names_collect")
    /\ got' = 0
    /\ UNCHANGED <<inputs, rerun, handles, unlimdim, ulen, vars_, vars_u, failed_vars, skipped_vars,
                   all_okay, vi, success, counts, inline>>

\* one iteration of the loop at lines 293-299; after the last one the joins
\* of lines 301-302 return (every worker has put its result and ended) and
\* lines 322-325 compute the counts
CollectNames ==
    /\ pc = "names_collect"
    /\ done_queue # <<>>
    /\ LET a == Aggregate(all_okay, failed_vars, skipped_vars, Head(done_queue)) IN
        /\ all_okay' = a.all_okay
        /\ failed_vars' = a.failed_vars
        /\ skipped_vars' = a.skipped_vars
        /\ IF got + 1 = nprocs
           THEN counts' = CountsOf(a.failed_vars, a.skipped_vars) /\ Goto("summary")
           ELSE UNCHANGED counts /\ Goto("names_collect")
    /\ done_queue' = Tail(done_queue)
    /\ senders' = Tail(senders)
    /\ gets' = [gets EXCEPT ![qid] = @ + 1]
    /\ taken' = taken \cup {<<Head(senders), qid>>}
    /\ got' = got + 1
    /\ UNCHANGED <<inputs, rerun, handles, unlimdim, ulen, vars_, vars_u, nprocs, ipp, qid, procs, vi,
                   success, inline>>


\* the else branch of line 303: the loop over vars_u, at variable vars_u[vi]
LoopCond == pc = "growth" /\ unlimdim # "None" /\ ~NamesCond

\* lines 313-320: the outcome of one growth-axis variable is recorded
RecordVar(var, ok) ==
    /\ all_okay' = IF ok THEN all_okay ELSE FALSE
    /\ failed_vars' = IF ok THEN failed_vars ELSE Append(failed_vars, var)
    /\ vi' = vi + 1

\* compare_umlim_var, lines 112-125: one work process per index range
DispatchUmlim ==
    /\ LoopCond
    /\ vi <= Len(vars_u)
    /\ ulen >= nprocs
    /\ LET ippv == ulen \div nprocs
           new == [i \in 1..nprocs |->
                     LET r == UmlimRange(ulen, nprocs, ippv, i - 1) IN
                     WorkProc(vars_u[vi], r.sti, r.edi, qid + 1)]
       IN  procs' = procs \o new
    /\ done_queue' = <<>>
    /\ senders' = <<>>
    /\ qid' = qid + 1
    /\ gets' = Append(gets, 0)
    /\ UNCHANGED taken
    /\ success' = TRUE
    /\ got' = 0
    /\ Goto("umlim_collect")
    /\ UNCHANGED <<inputs, rerun, handles, unlimdim, ulen, vars_, vars_u, failed_vars, skipped_vars,
                   all_okay, nprocs, ipp, vi, counts, inline>>

\* compare_umlim_var, line 129: "success and done_queue.get()" calls get()
\* only while success is still True
UmlimGets(successv) == successv

\* compare_umlim_var, lines 127-131: iterations of the loop up to and
\* including the next one that changes the state.  Once a result is False
\* the remaining iterations read nothing and the function returns False.
CollectUmlim ==
    /\ pc = "umlim_collect"
    /\ UmlimGets(success)
    /\ done_queue # <<>>
    /\ LET r == success /\ Head(done_queue)
           over == (got + 1 = nprocs) \/ ~UmlimGets(r)
       IN  /\ success' = r
           /\ got' = IF over THEN nprocs ELSE got + 1
           /\ IF over
              THEN RecordVar(vars_u[vi], r) /\ Goto("growth")
              ELSE UNCHANGED <<all_okay, failed_vars, vi>> /\ Goto("umlim_collect")
    /\ done_queue' = Tail(done_queue)
    /\ senders' = Tail(senders)
    /\ gets' = [gets EXCEPT ![qid] = @ + 1]
    /\ taken' = taken \cup {<<Head(senders), qid>>}
    /\ UNCHANGED <<inputs, rerun, handles, unlimdim, ulen, vars_, vars_u, skipped_vars, nprocs, ipp,
                   qid, procs, counts, inline>>

\* line 311: work() is called in the orchestrator itself, with no queue
SerialWork ==
    /\ LoopCond
    /\ vi <= Len(vars_u)
    /\ ulen < nprocs
    /\ inline' = inline \cup {vars_u[vi]}
    /\ IF WorkRaises(vars_u[vi], 0, ulen - 1)
       THEN /\ Abort("Exception", "work")
            /\ handles' = OpenDatasets(handles)
            /\ UNCHANGED <<all_okay, failed_vars, vi, success>>
       ELSE /\ success' = work(vars_u[vi], 0, ulen - 1)
            /\ RecordVar(vars_u[vi], work(vars_u[vi], 0, ulen - 1))
            /\ handles' = CloseDatasets(OpenDatasets(handles))
            /\ Goto("growth")
    /\ UNCHANGED <<inputs, rerun, unlimdim, ulen, vars_, vars_u, skipped_vars, nprocs, ipp,
                   done_queue, senders, qid, procs, got, counts, gets, taken>>

\* the loop of line 304 is over; lines 322-325
EndLoop ==
    /\ LoopCond
    /\ vi > Len(vars_u)
    /\ counts' = CountsOf(failed_vars, skipped_vars)
    /\ Goto("summary")
    /\ UNCHANGED <<inputs, rerun, handles, unlimdim, ulen, vars_, vars_u, failed_vars, skipped_vars,
                   all_okay, nprocs, ipp, done_queue, senders, qid, procs, vi, got, success,
                   gets, taken, inline>>

\* lines 196-199 and 327-334: the summary reads npassed, nfailed, nskipped
Summary ==
    /\ pc = "summary"
    /\ IF (summary \/ conterr) /\ ~counts.defined
       THEN Abort("NameError", "compare_variables")      \* line 332
       ELSE Goto("verdict")
    /\ UNCHANGED <<inputs, rerun, handles, unlimdim, ulen, vars_, vars_u, failed_vars, skipped_vars,
                   all_okay, nprocs, ipp, done_queue, senders, qid, procs, vi, got, success,
                   counts, gets, taken, inline>>

\* lines 336-343
Verdict ==
    /\ pc = "verdict"
    /\ pc' = "done"
    /\ exitcode' = IF ~all_okay THEN 1 ELSE 0
    /\ UNCHANGED <<inputs, rerun, handles, exc, unlimdim, ulen, vars_, vars_u, failed_vars,
                   skipped_vars, all_okay, nprocs, ipp, done_queue, senders, qid, procs, vi,
                   got, success, counts, gets, taken, inline>>

\* ------------------------------------------------------------------ worker processes
Raises(p) ==
    IF p.target = "parcomp" THEN ParcompRaises(p.vars_)
    ELSE WorkRaises(p.var, p.sti, p.edi)

Result(p) ==
    IF p.target = "parcomp" THEN parcomp(p.vars_) ELSE work(p.var, p.sti, p.edi)

\* a worker runs to its end and puts its result on the queue it was given;
\* a queue the orchestrator has replaced is read by nobody
\* the Queue a worker puts to is the object it was given as argument when its
\* Process was created (lines 123, 253-254, 290); every wave creates
\* its own (lines 114, 244, 282).  A put to a queue the orchestrator no longer
\* reads is never taken.
QueueOf_Current(w) == qid
QueueOf(w) == procs[w].q

WorkerFinish(w) ==
    /\ procs[w].st = "live"
    /\ ~Raises(procs[w])
    /\ procs' = [procs EXCEPT ![w].st = "done", ![w].h = WorkerHandles(FALSE)]
    /\ done_queue' = IF QueueOf(w) = qid THEN Append(done_queue, Result(procs[w]))
                     ELSE done_queue
    /\ senders' = IF QueueOf(w) = qid THEN Append(senders, w) ELSE senders
    /\ UNCHANGED <<inputs, rerun, handles, pc, exc, exitcode, unlimdim, ulen, vars_, vars_u, failed_vars,
                   skipped_vars, all_okay, nprocs, ipp, qid, vi, got, success, counts,
                   gets, taken, inline>>

\* an exception other than AssertionError ends the process before its put
WorkerDies(w) ==
    /\ procs[w].st = "live"
    /\ Raises(procs[w])
    /\ procs' = [procs EXCEPT ![w].st = "dead", ![w].h = WorkerHandles(TRUE)]
    /\ UNCHANGED <<inputs, rerun, handles, pc, exc, exitcode, unlimdim, ulen, vars_, vars_u, failed_vars,
                   skipped_vars, all_okay, nprocs, ipp, done_queue, senders, qid, vi, got, success,
                   counts, gets, taken, inline>>

Next ==
    \/ StartCompare
    \/ CompareDimensions
    \/ CompareAttributes
    \/ ClassifyVariables
    \/ DispatchFixed
    \/ CollectFixed
    \/ SkipGrowth
    \/ DispatchNames
    \/ CollectNames
    \/ DispatchUmlim
    \/ CollectUmlim
    \/ SerialWork
    \/ EndLoop
    \/ Summary
    \/ Verdict
    \/ \E w \in 1..Len(procs) : WorkerFinish(w)
    \/ \E w \in 1..Len(procs) : WorkerDies(w)

Spec == Init /\ [][Next]_vars


\* ------------------------------------------------------------------ re-run
\* the program is run again on the same two files with -n 1: a new process,
\* whose state is the initial one
Restart ==
    /\ pc = "done"
    /\ run = 1
    /\ run' = 2
    /\ prev' = [exitcode |-> exitcode, failed |-> Range(failed_vars),
                skipped |-> Range(skipped_vars)]
    /\ nprocsg' = 1
    /\ pc' = "start"
    /\ exc' = NoExc
    /\ exitcode' = -1
    /\ unlimdim' = PyNone
    /\ ulen' = 0
    /\ vars_' = <<>>
    /\ vars_u' = <<>>
    /\ failed_vars' = <<>>
    /\ skipped_vars' = <<>>
    /\ all_okay' = TRUE
    /\ nprocs' = 0
    /\ ipp' = 0
    /\ done_queue' = <<>>
    /\ senders' = <<>>
    /\ qid' = 0
    /\ procs' = <<>>
    /\ vi' = 1
    /\ got' = 0
    /\ success' = TRUE
    /\ counts' = Undefined
    /\ gets' = <<>>
    /\ taken' = {}
    /\ inline' = {}
    /\ handles' = 0
    /\ UNCHANGED <<conterr, summary, ignore_attributes, ncf1, ncf2, cmp>>

NextRerun == Next \/ Restart

SpecRerun == Init /\ [][NextRerun]_vars

\* ------------------------------------------------------------------ properties
WaveOf(k) == {w \in 1..Len(procs) : procs[w].q = k}
NamesWave == {w \in 1..Len(procs) : procs[w].q > 1 /\ procs[w].target = "parcomp"}
WorkProcsOf(var) ==
    {w \in 1..Len(procs) : procs[w].target = "work" /\ procs[w].var = var}
Collecting == pc \in {"fixed_collect", "names_collect", "umlim_collect"}
\* the orchestrator waits in done_queue.get() and nobody is left to put
Blocked ==
    /\ Collecting
    /\ done_queue = <<>>
    /\ \A w \in WaveOf(qid) : procs[w].st # "live"
TextVars == {v \in Names(ncf1) : IsText(v)}

\* C1: in every wave the work units are non-empty and pairwise disjoint, and
\* together they are all the variables of the group (fixed-shape wave,
\* variable-name wave) or all the indices 0..ulen-1 (index-range wave).
C1_Partition ==
    \A k \in 1..qid :
        LET W == WaveOf(k) IN
        /\ W # {}
        /\ IF \E w \in W : procs[w].target = "parcomp"
           THEN /\ \A w \in W : procs[w].vars_ # <<>>
                /\ \A w1, w2 \in W :
                      w1 # w2 => Range(procs[w1].vars_) \cap Range(procs[w2].vars_) = {}
                /\ UNION {Range(procs[w].vars_) : w \in W}
                      = IF k = 1 THEN Range(vars_) ELSE Range(vars_u)
           ELSE /\ \A w \in W : procs[w].sti <= procs[w].edi
                /\ \A w1, w2 \in W :
                      w1 # w2 => (procs[w1].sti..procs[w1].edi)
                                     \cap (procs[w2].sti..procs[w2].edi) = {}
                /\ UNION {procs[w].sti..procs[w].edi : w \in W} = 0..(ulen - 1)
                /\ \A w1, w2 \in W : procs[w1].var = procs[w2].var

\* a run that ended with a fixed-shape wave of several workers and an
\* index-range wave whose last range took the remainder
C1_Witness ==
    /\ pc = "done"
    /\ Cardinality(WaveOf(1)) >= 2
    /\ \E w \in 1..Len(procs) :
          procs[w].target = "work" /\ procs[w].sti > 0 /\ procs[w].edi > procs[w].sti

\* C2 (as stated): when the requested parallelism exceeds the number of items,
\* the wave has exactly one work unit per item, in the fixed-shape wave and in
\* the variable-name wave of the growth-axis group alike.
C2_Original ==
    /\ (qid >= 1 /\ nprocsg > Len(vars_)) =>
          /\ Cardinality(WaveOf(1)) = Len(vars_)
          /\ \A w \in WaveOf(1) : Len(procs[w].vars_) = 1
    /\ (NamesWave # {} /\ nprocsg > Len(vars_u)) =>
          /\ Cardinality(NamesWave) = Len(vars_u)
          /\ \A w \in NamesWave : Len(procs[w].vars_) = 1

\* C2 (amended): the fixed-shape wave clamps P to the number of variables, one
\* variable per worker; the variable-name wave halves P (integer division)
\* until it is at most the number of growth-axis variables, so it has
\* P div 2^k workers for the least such k, each with at least one variable.
C2_ClampOrHalve ==
    /\ (qid >= 1 /\ nprocsg > Len(vars_)) =>
          /\ Cardinality(WaveOf(1)) = Len(vars_)
          /\ \A w \in WaveOf(1) : Len(procs[w].vars_) = 1
    /\ (NamesWave # {} /\ nprocsg > Len(vars_u)) =>
          LET n == Cardinality(NamesWave)
              c == Len(vars_u)
          IN  /\ n >= 1
              /\ n <= c
              /\ \E k \in 1..(MaxProcs + 1) :
                    /\ n = nprocsg \div (2 ^ k)
                    /\ nprocsg \div (2 ^ (k - 1)) > c
              /\ \A w \in NamesWave : Len(procs[w].vars_) >= 1

\* a finished run whose requested parallelism exceeded both group sizes and
\* whose variable-name wave had fewer workers than variables
C2_Witness ==
    /\ pc = "done"
    /\ nprocsg > Len(vars_)
    /\ NamesWave # {}
    /\ nprocsg > Len(vars_u)
    /\ Cardinality(NamesWave) < Len(vars_u)

\* C3: once a wave's collection is over, the orchestrator has taken as many
\* results from that wave's queue as it started workers for it.
C3_Original ==
    \A k \in 1..qid :
        (k < qid \/ ~Collecting) => gets[k] = Cardinality(WaveOf(k))

\* C4: no worker ends without delivering a partial result, no exception of a
\* comparison ends the run, and the orchestrator is never left waiting on a
\* queue that nobody will put to.
C4_Original ==
    /\ \A w \in 1..Len(procs) : procs[w].st # "dead"
    /\ ~(pc = "aborted" /\ exc.at = "work")
    /\ ~Blocked

\* C5: after a completed run every text (S1) variable is in the skipped list
\* and not in the failed list.
C5_Original ==
    pc = "done" =>
        \A v \in TextVars : v \in Range(skipped_vars) /\ v \notin Range(failed_vars)


HasBad(v) == \E i \in 1..Len(cmp[v]) : cmp[v][i] = "bad"
NoDuplicates(q) == \A i, j \in 1..Len(q) : i # j => q[i] # q[j]
\* the growth-axis variables whose iteration of the loop at line 304 is over
LoopDone == {vars_u[j] : j \in 1..(vi - 1)}

\* C6: a growth-axis variable that was compared by index ranges is in the
\* failed list exactly when some index of 0..ulen-1 fails the comparison, and
\* no name is in the failed list twice.
C6_FailedIffSomeIndex ==
    /\ \A v \in LoopDone :
          WorkProcsOf(v) # {} => (v \in Range(failed_vars) <=> HasBad(v))
    /\ NoDuplicates(failed_vars)

\* a finished run in which a variable split over two workers failed because of
\* an index in the second worker's range only
C6_Witness ==
    /\ pc = "done"
    /\ \E v \in Range(failed_vars) :
          /\ Cardinality(WorkProcsOf(v)) >= 2
          /\ cmp[v][1] = "ok"
          /\ cmp[v][Len(cmp[v])] = "bad"

\* C7: a run with -n 1 on the same two files ends like the run with -n N
\* before it: it reaches the verdict, with the same exit status, the same set
\* of failed variables and the same set of skipped variables.
C7_Original ==
    run = 2 =>
        /\ ~Blocked
        /\ pc # "aborted"
        /\ pc = "done" =>
              /\ exitcode = prev.exitcode
              /\ Range(failed_vars) = prev.failed
              /\ Range(skipped_vars) = prev.skipped

\* the partial result of a worker, as a function of its work unit alone
UnitOK(w) ==
    IF procs[w].target = "parcomp" THEN parcomp(procs[w].vars_).success
    ELSE work(procs[w].var, procs[w].sti, procs[w].edi)
UnitFailed(w) == Range(parcomp(procs[w].vars_).failed)
UnitSkipped(w) == Range(parcomp(procs[w].vars_).skipped)
ParcompProcs == {w \in 1..Len(procs) : procs[w].target = "parcomp"}
\* every wave of parcomp workers started so far has been collected
ParcompCollected == pc \in {"growth", "umlim_collect", "summary", "verdict", "done"}

\* C8: whatever the order in which the workers of a wave put their results,
\* after the wave the flag is the AND of the success flags and the failed and
\* skipped sets are the unions of the partial ones; an index-range wave
\* yields the AND of its workers' flags.
C8_OrderIndependent ==
    /\ ParcompCollected =>
          /\ Range(skipped_vars) = UNION {UnitSkipped(w) : w \in ParcompProcs}
          /\ Range(failed_vars) \cap UNION {Range(procs[w].vars_) : w \in ParcompProcs}
                = UNION {UnitFailed(w) : w \in ParcompProcs}
          /\ (pc = "growth" /\ vi = 1) =>
                (all_okay <=> \A w \in ParcompProcs : UnitOK(w))
    /\ pc \in {"summary", "verdict", "done"} =>
          (all_okay <=> /\ \A w \in 1..Len(procs) : UnitOK(w)
                        /\ \A v \in inline : work(v, 0, ulen - 1))
    /\ \A v \in LoopDone :
          WorkProcsOf(v) # {} =>
              (v \notin Range(failed_vars) <=> \A w \in WorkProcsOf(v) : UnitOK(w))

\* a finished run whose two fixed-shape workers both reported a failure and
\* whose results arrived in the reverse of the order of dispatch
C8_Witness ==
    /\ pc = "done"
    /\ failed_vars = <<FName(2), FName(1)>>

DimMismatch ==
    \/ DOMAIN ncf1.dimensions # DOMAIN ncf2.dimensions
    \/ \E k \in DOMAIN ncf1.dimensions \cap DOMAIN ncf2.dimensions :
          ncf1.dimensions[k].len # ncf2.dimensions[k].len
AttMismatch ==
    \/ Range(AttNames(ncf1)) # Range(AttNames(ncf2))
    \/ \E a \in Range(AttNames(ncf1)) \cap Range(AttNames(ncf2)) :
          AttValue(ncf1, a) # AttValue(ncf2, a)
VarMismatch == Names(ncf1) # Names(ncf2)
StructMismatch == DimMismatch \/ (~ignore_attributes /\ AttMismatch) \/ VarMismatch

\* C9: with -k no structural check ends the run: it is never aborted by an
\* exception raised in compare_dimensions or compare_attributes or by the
\* variable-set assertions of compare_variables.
C9_Original ==
    conterr =>
        ~(/\ pc = "aborted"
          /\ \/ exc.at \in {"compare_dimensions", "compare_attributes"}
             \/ exc.type = "AssertionError")

\* C10: without -k, when the two files differ in dimensions, attributes (unless
\* ignored) or variable names, the run never gets past the structural checks:
\* no worker is started, no variable is compared, and the run can only end
\* with an AssertionError.
C10_StrictAborts ==
    (~conterr /\ StructMismatch) =>
        /\ pc \in {"start", "dimensions", "attributes", "variables", "aborted"}
        /\ procs = <<>>
        /\ inline = {}
        /\ pc = "aborted" => exc.type = "AssertionError"

\* a strict run that passed the dimension and attribute checks and was
\* aborted by the variable-set check
C10_Witness ==
    /\ ~conterr
    /\ VarMismatch
    /\ pc = "aborted"
    /\ exc = [type |-> "AssertionError", at |-> "compare_variables"]

\* C11: a run that reaches the end exits non-zero exactly when some variable
\* failed, or -k is set and a structural check (dimensions, attributes,
\* variable set) found a difference; otherwise it exits 0.
C11_Original ==
    pc = "done" =>
        (exitcode # 0 <=> (failed_vars # <<>> \/ (conterr /\ StructMismatch)))

Unlimited(file) == {k \in DOMAIN file.dimensions : file.dimensions[k].unlimited}
NoGrowthAxis(file) == Unlimited(file) = {} /\ "time" \notin DOMAIN file.dimensions
Classified ==
    \/ pc \in {"fixed", "fixed_collect", "growth", "names_collect", "umlim_collect",
               "summary", "verdict", "done"}
    \/ pc = "aborted" /\ exc.at \in {"compare_variables", "work"}

\* C12: the growth dimension is the unlimited dimension if the first file has
\* one, else the dimension named time if it has one; else there is no growth
\* axis: the growth length is 0, the growth-axis group is empty, every
\* variable is in the fixed-shape group, and a run that ends has evaluated
\* every variable in the fixed-shape wave.
C12_Original ==
    LET d == ncf1.dimensions IN
    pc # "start" =>
        /\ Unlimited(ncf1) # {} => unlimdim \in Unlimited(ncf1) /\ ulen = d[unlimdim].len
        /\ (Unlimited(ncf1) = {} /\ "time" \in DOMAIN d) =>
              unlimdim = "time" /\ ulen = d["time"].len
        /\ NoGrowthAxis(ncf1) =>
              /\ ulen = 0
              /\ Classified =>
                    /\ vars_u = <<>>
                    /\ vars_ = SeqMap(NameOf, ncf1.variables)
              /\ pc = "done" =>
                    \A v \in Names(ncf1) :
                        \E w \in WaveOf(1) : v \in Range(procs[w].vars_)

MaskOf(file, v) == (CHOOSE r \in Range(file.variables) : r.name = v).mask
MaskDiffers(v) == MaskOf(ncf1, v) # MaskOf(ncf2, v)
Evaluated(v) ==
    \/ \E w \in ParcompProcs : v \in Range(procs[w].vars_)
    \/ WorkProcsOf(v) # {}
    \/ v \in inline

\* C13: a compared numeric variable passes only if its data agree within
\* tolerance and its two validity masks are equal: at the end of a run every
\* compared variable whose data or whose masks differ is in the failed list.
C13_Original ==
    pc = "done" =>
        \A v \in Names(ncf1) \cap Names(ncf2) :
            (Evaluated(v) /\ ~IsText(v) /\ (HasBad(v) \/ MaskDiffers(v)))
                => v \in Range(failed_vars)

\* the growth-axis stage has chosen between the variable-name wave and the
\* per-variable loop
GrowthDecided ==
    /\ unlimdim # "None"
    /\ \/ pc \in {"names_collect", "umlim_collect", "summary", "verdict", "done"}
       \/ pc = "growth" /\ vi > 1

\* C14: the growth-axis group is split by variable name (parcomp workers)
\* exactly when the growth length is smaller than the requested process count
\* and there are more than 4 growth-axis variables, whatever the number of
\* fixed-shape variables.
C14_Original ==
    GrowthDecided => (NamesWave # {} <=> (ulen < nprocsg /\ Len(vars_u) > 4))

GrowthStarted == inline # {} \/ \E w \in 1..Len(procs) : procs[w].q > 1
FixedCollected ==
    /\ qid >= 1
    /\ gets[1] = Cardinality(WaveOf(1))
    /\ \A w \in WaveOf(1) : procs[w].st = "done"
GrowthCollected ==
    \A k \in 2..qid :
        /\ gets[k] = Cardinality(WaveOf(k))
        /\ \A w \in WaveOf(k) : procs[w].st = "done"

\* C15: the stages run in the order dimensions, attributes, classification,
\* fixed-shape wave, growth-axis wave, verdict: a worker exists only after the
\* growth dimension was resolved and the variables classified, no growth-axis
\* comparison starts before every result of the fixed-shape wave was taken,
\* and the verdict is reached only after every growth-axis wave was collected.
C15_Original ==
    /\ procs # <<>> => (unlimdim # PyNone /\ Classified)
    /\ GrowthStarted => FixedCollected
    /\ pc \in {"verdict", "done"} => (FixedCollected /\ GrowthCollected)

Live == {w \in 1..Len(procs) : procs[w].st = "live"}

\* C16: at every moment the number of worker processes that were started and
\* have not yet terminated is at most the requested process count, also
\* across consecutive waves.
C16_Original == Cardinality(Live) <= nprocsg

\* the per-variable loop is about to call work() in the orchestrator itself
InlineWorkNext == LoopCond /\ vi <= Len(vars_u) /\ ulen < nprocs

\* C17: a worker whose result was put on the done queue (or returned) has
\* closed both dataset handles it opened, and the orchestrator holds no open
\* dataset handle while a worker is running: it has closed its own before the
\* first worker starts, and it opens them again (inline work) only when no
\* worker is running.
C17_HandlesClosed ==
    /\ \A w \in 1..Len(procs) : procs[w].st = "done" => procs[w].h = 0
    /\ Live # {} => handles = 0
    /\ InlineWorkNext => Live = {}
    /\ pc \in {"fixed", "growth", "summary", "verdict", "done"} => handles = 0

\* a wave with one worker still running and the result of another, which has
\* closed its handles, already on the done queue
C17_Witness ==
    /\ Live # {}
    /\ done_queue # <<>>
    /\ \E w \in WaveOf(qid) : procs[w].st = "done"
    /\ handles = 0

SummaryPrinted == (summary \/ conterr) /\ pc \in {"verdict", "done"}

\* C18: whenever the summary is due (-s or -k) the counts are defined, each
\* is at least 0 and passed + failed + skipped is the number of variables of
\* the first file, also when no growth axis was found: no run ends in the
\* summary with an undefined count.
C18_Original ==
    /\ ((summary \/ conterr) /\ pc = "summary") => counts.defined
    /\ SummaryPrinted =>
          IF counts.defined
          THEN /\ counts.npassed >= 0 /\ counts.nfailed >= 0 /\ counts.nskipped >= 0
               /\ counts.npassed + counts.nfailed + counts.nskipped
                     = Len(ncf1.variables)
          ELSE FALSE

\* number of work units of the fixed-shape wave, and of the growth-axis stage,
\* that variable v was handed to (the index ranges of one variable, or its
\* inline comparison, count as one)
FixedUnits(v) == Cardinality({w \in WaveOf(1) : v \in Range(procs[w].vars_)})
GrowthUnits(v) ==
    Cardinality({w \in NamesWave : v \in Range(procs[w].vars_)})
        + (IF WorkProcsOf(v) # {} \/ v \in inline THEN 1 ELSE 0)

\* C19: on every run that reaches the verdict, with or without -k, every
\* variable of the first file was handed to a comparison in exactly one
\* group, the fixed-shape wave or the growth-axis stage; a variable that
\* failed did not keep any other variable from being compared.
C19_Original ==
    pc \in {"verdict", "done"} =>
        \A v \in Names(ncf1) : FixedUnits(v) + GrowthUnits(v) = 1

\* C20: when the fixed-shape group is empty the fixed-shape stage starts no
\* worker and raises no error: the run goes on to the growth-axis stage.
C20_Original ==
    (Classified /\ vars_ = <<>>) =>
        /\ WaveOf(1) = {}
        /\ ~(pc = "aborted" /\ exc.at = "compare_variables"
                /\ exc.type # "AssertionError")

\* workers whose wave is no longer collected: their queue is not read any more
Stale == {w \in 1..Len(procs) : procs[w].q < qid}

\* C21: a partial result is only ever taken by the collection loop of the
\* wave whose worker put it: every result a get() returned was read from the
\* queue of its worker's own wave, and every result waiting in the queue now
\* read was put by a worker of the current wave, also after a collection that
\* ended before all workers of its wave had delivered.
C21_OwnWaveOnly ==
    /\ \A t \in taken : procs[t[1]].q = t[2]
    /\ Len(senders) = Len(done_queue)
    /\ \A i \in 1..Len(senders) : procs[senders[i]].q = qid
    /\ \A w \in Stale : procs[w].st = "done" =>
          \A k \in (procs[w].q + 1)..qid : <<w, k>> \notin taken

\* a worker delivered after the collection of its wave had ended, and a later
\* wave has since had a result taken
C21_Witness ==
    \E w \in Stale :
        /\ procs[w].st = "done"
        /\ <<w, procs[w].q>> \notin taken
        /\ gets[procs[w].q] < Cardinality(WaveOf(procs[w].q))
        /\ \E t \in taken : t[2] > procs[w].q

====
